---- MODULE Spec2Model ----
(***************************************************************************)
(* Model of the ingress-nginx migration analyzer: the annotation rule      *)
(* table and matcher (package rules), the per-resource analysis and the    *)
(* cluster summary (package analyze, Analyzer), the annotation inventory   *)
(* (package analyze, BuildAnnotationInventory and its queries) and the     *)
(* part of the scanner (package discovery) that decides which ingresses    *)
(* are analysed.                                                           *)
(*                                                                         *)
(* Strings are TLA+ strings; Len, SubSeq and \o act on them character by   *)
(* character.  A Go map is a TLA+ function; every `for k := range m` of    *)
(* the source is modelled with an explicit iteration order, a sequence     *)
(* that lists the keys of m once each, chosen nondeterministically.        *)
(***************************************************************************)
EXTENDS Integers, Sequences, FiniteSets, TLC

VARIABLES pc, analyses, summary, inventory, previous, critical, returned, limit,
          namespaceAnnotations, namespaceMap, byRisk, listed, scan

vars == <<pc, analyses, summary, inventory, previous, critical, returned, limit,
          namespaceAnnotations, namespaceMap, byRisk, listed, scan>>

(***************************************************************************)
(* Bounds of the model.                                                    *)
(***************************************************************************)
MaxAnnotations == 2

MaxResources == 2

MaxLimit == 2

(***************************************************************************)
(* internal/models: risk levels.                                           *)
(***************************************************************************)
RiskAuto == "AUTO"

RiskManual == "MANUAL"

RiskHigh == "HIGH_RISK"

RiskUnknown == "UNKNOWN"

NoRisk == ""

(***************************************************************************)
(* strings.HasPrefix, strings.Contains and regexp.MatchString.             *)
(***************************************************************************)
CharAt(s, i) == SubSeq(s, i, i)

HasPrefix(s, prefix) ==
    /\ Len(s) >= Len(prefix)
    /\ SubSeq(s, 1, Len(prefix)) = prefix

Contains(s, substr) ==
    \E i \in 1..(Len(s) - Len(substr) + 1) :
        SubSeq(s, i, i + Len(substr) - 1) = substr

\* The pattern, read as a regular expression, matches s at offset i.  The
\* patterns of the rule table are built from letters, '-', '/' and '.';
\* '.' matches any character, every other character matches itself.
RegexpMatchAt(pattern, s, i) ==
    \A j \in 1..Len(pattern) :
        \/ CharAt(pattern, j) = "."
        \/ CharAt(pattern, j) = CharAt(s, i + j - 1)

\* regexp.MatchString(pattern, s): the expression is not anchored, so it
\* matches when it matches some substring of s.
RegexpMatchString(pattern, s) ==
    \E i \in 1..(Len(s) - Len(pattern) + 1) : RegexpMatchAt(pattern, s, i)

(***************************************************************************)
(* package rules: the rule table.                                          *)
(***************************************************************************)
NginxPrefix == "nginx.ingress.kubernetes.io/"

GetAnnotationRules == <<
    [Name |-> "Rewrite Target",
     Pattern |-> "nginx.ingress.kubernetes.io/rewrite-target",
     RiskLevel |-> RiskAuto,
     Description |-> "URL path rewriting functionality",
     MigrationNote |-> "Gateway API HTTPRoute supports path rewriting via URLRewrite filters (GEP-726). Most Gateway implementations support this feature.",
     SourceURL |-> "https://gateway-api.sigs.k8s.io/guides/http-redirect-rewrite/"],
    [Name |-> "SSL Redirect",
     Pattern |-> "nginx.ingress.kubernetes.io/ssl-redirect",
     RiskLevel |-> RiskAuto,
     Description |-> "Automatic HTTPS redirect",
     MigrationNote |-> "Gateway API HTTPRoute supports HTTPS redirects via RequestRedirect filters. Standard feature across Gateway implementations.",
     SourceURL |-> "https://gateway-api.sigs.k8s.io/guides/http-redirect-rewrite/"],
    [Name |-> "Force SSL Redirect",
     Pattern |-> "nginx.ingress.kubernetes.io/force-ssl-redirect",
     RiskLevel |-> RiskAuto,
     Description |-> "Force HTTPS redirect even for non-SSL listeners",
     MigrationNote |-> "Gateway API HTTPRoute supports HTTPS redirects via RequestRedirect filters. Similar implementation pattern to ssl-redirect.",
     SourceURL |-> "https://gateway-api.sigs.k8s.io/guides/http-redirect-rewrite/"],
    [Name |-> "Backend Protocol",
     Pattern |-> "nginx.ingress.kubernetes.io/backend-protocol",
     RiskLevel |-> RiskManual,
     Description |-> "Specifies protocol for backend communication (HTTP/HTTPS/GRPC/etc)",
     MigrationNote |-> "Gateway API BackendRef supports protocol fields, but implementation varies by Gateway provider. Verify your Gateway supports the required protocols.",
     SourceURL |-> "https://gateway-api.sigs.k8s.io/reference/spec/#backendref"],
    [Name |-> "Use Regex",
     Pattern |-> "nginx.ingress.kubernetes.io/use-regex",
     RiskLevel |-> RiskManual,
     Description |-> "Enable regex matching for paths",
     MigrationNote |-> "Gateway API HTTPRoute supports RegularExpression path matching (v1.1+). Verify your Gateway implementation supports regex and review syntax differences.",
     SourceURL |-> "https://gateway-api.sigs.k8s.io/reference/spec/#httppathmatch"],
    [Name |-> "Proxy Body Size",
     Pattern |-> "nginx.ingress.kubernetes.io/proxy-body-size",
     RiskLevel |-> RiskManual,
     Description |-> "Maximum size of the client request body",
     MigrationNote |-> "No standardized Gateway API equivalent. Gateway implementations may support request size limits via vendor-specific policies. Check your Gateway documentation.",
     SourceURL |-> "https://kubernetes.github.io/ingress-nginx/user-guide/nginx-configuration/annotations/#proxy-body-size"],
    [Name |-> "Proxy Read Timeout",
     Pattern |-> "nginx.ingress.kubernetes.io/proxy-read-timeout",
     RiskLevel |-> RiskManual,
     Description |-> "Timeout for reading response from backend",
     MigrationNote |-> "Gateway API may support timeouts via implementation-specific policies. Check your Gateway implementation's policy support or use service mesh.",
     SourceURL |-> "https://kubernetes.github.io/ingress-nginx/user-guide/nginx-configuration/annotations/#proxy-read-timeout"],
    [Name |-> "Proxy Send Timeout",
     Pattern |-> "nginx.ingress.kubernetes.io/proxy-send-timeout",
     RiskLevel |-> RiskManual,
     Description |-> "Timeout for transmitting request to backend",
     MigrationNote |-> "Similar to read timeout - check Gateway implementation policy support or implement at application/service mesh level.",
     SourceURL |-> "https://kubernetes.github.io/ingress-nginx/user-guide/nginx-configuration/annotations/#proxy-send-timeout"],
    [Name |-> "Auth URL",
     Pattern |-> "nginx.ingress.kubernetes.io/auth-url",
     RiskLevel |-> RiskManual,
     Description |-> "External authentication service URL",
     MigrationNote |-> "Gateway API doesn't standardize external auth, but many implementations support it. Consider OAuth2/OIDC policies or service mesh auth instead.",
     SourceURL |-> "https://kubernetes.github.io/ingress-nginx/user-guide/nginx-configuration/annotations/#auth-url"],
    [Name |-> "Proxy Connect Timeout",
     Pattern |-> "nginx.ingress.kubernetes.io/proxy-connect-timeout",
     RiskLevel |-> RiskManual,
     Description |-> "Timeout for establishing connection to backend",
     MigrationNote |-> "Check Gateway implementation support for connection timeouts or implement circuit breaker patterns at the application level.",
     SourceURL |-> "https://kubernetes.github.io/ingress-nginx/user-guide/nginx-configuration/annotations/#proxy-connect-timeout"],
    [Name |-> "Client Body Buffer Size",
     Pattern |-> "nginx.ingress.kubernetes.io/client-body-buffer-size",
     RiskLevel |-> RiskManual,
     Description |-> "Buffer size for reading client request body",
     MigrationNote |-> "Implementation-specific setting. Review if your application requires specific buffering behavior and implement accordingly.",
     SourceURL |-> "https://kubernetes.github.io/ingress-nginx/user-guide/nginx-configuration/annotations/#client-body-buffer-size"],
    [Name |-> "CORS Enable",
     Pattern |-> "nginx.ingress.kubernetes.io/enable-cors",
     RiskLevel |-> RiskManual,
     Description |-> "Enable CORS headers",
     MigrationNote |-> "Some Gateway implementations support CORS via policies. Alternatively, implement CORS at application level or via service mesh.",
     SourceURL |-> "https://kubernetes.github.io/ingress-nginx/user-guide/nginx-configuration/annotations/#enable-cors"],
    [Name |-> "Rate Limiting",
     Pattern |-> "nginx.ingress.kubernetes.io/rate-limit",
     RiskLevel |-> RiskManual,
     Description |-> "Request rate limiting configuration",
     MigrationNote |-> "Gateway API is developing rate limiting standards (GEP-1731). Check your Gateway implementation or use service mesh rate limiting.",
     SourceURL |-> "https://kubernetes.github.io/ingress-nginx/user-guide/nginx-configuration/annotations/#rate-limiting"],
    [Name |-> "Server Snippet",
     Pattern |-> "nginx.ingress.kubernetes.io/server-snippet",
     RiskLevel |-> RiskHigh,
     Description |-> "Custom NGINX server block configuration",
     MigrationNote |-> "Server snippets contain custom NGINX configuration that has no Gateway API equivalent. Review the configuration and implement equivalent functionality using Gateway policies, service mesh, or consider staying with NGINX Inc commercial controller.",
     SourceURL |-> "https://kubernetes.github.io/ingress-nginx/user-guide/nginx-configuration/annotations/#server-snippet"],
    [Name |-> "Configuration Snippet",
     Pattern |-> "nginx.ingress.kubernetes.io/configuration-snippet",
     RiskLevel |-> RiskHigh,
     Description |-> "Custom NGINX location block configuration",
     MigrationNote |-> "Configuration snippets require manual analysis and reimplementation. Consider Gateway API policies, service mesh capabilities, or application-level changes.",
     SourceURL |-> "https://kubernetes.github.io/ingress-nginx/user-guide/nginx-configuration/annotations/#configuration-snippet"],
    [Name |-> "Location Snippet",
     Pattern |-> "nginx.ingress.kubernetes.io/location-snippet",
     RiskLevel |-> RiskHigh,
     Description |-> "Custom NGINX location configuration",
     MigrationNote |-> "Location snippets need careful review for functionality. Map to Gateway API filters, policies, or service mesh configurations where possible.",
     SourceURL |-> "https://kubernetes.github.io/ingress-nginx/user-guide/nginx-configuration/annotations/#configuration-snippet"],
    [Name |-> "Stream Snippet",
     Pattern |-> "nginx.ingress.kubernetes.io/stream-snippet",
     RiskLevel |-> RiskHigh,
     Description |-> "Custom NGINX stream configuration for TCP/UDP",
     MigrationNote |-> "Stream snippets are for Layer 4 routing. Gateway API supports TCP/UDP via TCPRoute/UDPRoute, but custom stream logic requires reimplementation.",
     SourceURL |-> "https://gateway-api.sigs.k8s.io/reference/spec/#tcproute"],
    [Name |-> "Http Snippet",
     Pattern |-> "nginx.ingress.kubernetes.io/http-snippet",
     RiskLevel |-> RiskHigh,
     Description |-> "Custom NGINX http block configuration",
     MigrationNote |-> "HTTP snippets affect global behavior. Requires careful analysis and potential migration to Gateway-level policies or infrastructure changes.",
     SourceURL |-> "https://kubernetes.github.io/ingress-nginx/user-guide/nginx-configuration/annotations/#configuration-snippet"]
>>

NoRule == [Name |-> "<nil>"]

RuleIndexes == 1..Len(GetAnnotationRules)

Min(S) == CHOOSE x \in S : \A y \in S : x <= y

\* A lookup that takes the first rule whose pattern matches as a regular
\* expression.
GetRuleByPatternRegexp(annotationKey) ==
    LET hits == {i \in RuleIndexes :
                    RegexpMatchString(GetAnnotationRules[i].Pattern, annotationKey)}
    IN  IF hits = {} THEN NoRule ELSE GetAnnotationRules[Min(hits)]

\* GetRuleByPattern: the first rule whose pattern equals the key, or nil.
GetRuleByPattern(annotationKey) ==
    LET hits == {i \in RuleIndexes : GetAnnotationRules[i].Pattern = annotationKey}
    IN  IF hits = {} THEN NoRule ELSE GetAnnotationRules[Min(hits)]

\* Annotation keys: rule patterns of the three risk levels, nginx keys with
\* no rule, keys of other controllers, and system keys.
Keys ==
    {"nginx.ingress.kubernetes.io/rewrite-target",
     "nginx.ingress.kubernetes.io/rate-limit",
     "nginx.ingress.kubernetes.io/server-snippet",
     "nginx.ingress.kubernetes.io/rate-limit-rps",
     "nginx.ingress.kubernetes.io/custom-unknown",
     "my.nginx.ingress.kubernetes.io/server-snippet",
     "cert-manager.io/issuer",
     "kubernetes.io/ingress.class",
     "kubectl.kubernetes.io/last-applied-configuration"}

\* The iteration orders of a map: the sequences listing each key once.
RECURSIVE Orders(_)
Orders(S) ==
    IF S = {} THEN {<<>>}
    ELSE UNION {{<<k>> \o o : o \in Orders(S \ {k})} : k \in S}

\* The inner loop of MatchAnnotations for one key: the first rule whose
\* pattern matches the key as a regular expression, then break.
MatchOne(annotationKey) ==
    LET hits == {i \in RuleIndexes :
                    RegexpMatchString(GetAnnotationRules[i].Pattern, annotationKey)}
    IN  IF hits = {} THEN <<>> ELSE <<GetAnnotationRules[Min(hits)]>>

\* MatchOne, evaluated once for each key of the model.
MatchTable == [annotationKey \in Keys |-> MatchOne(annotationKey)]

RECURSIVE MatchFrom(_, _)
MatchFrom(order, i) ==
    IF i > Len(order) THEN <<>>
    ELSE MatchTable[order[i]] \o MatchFrom(order, i + 1)

\* MatchAnnotations(annotations), the keys being visited in the given order.
MatchAnnotations(annotations, order) == MatchFrom(order, 1)

\* knownPatterns of GetUnknownNginxAnnotations.
KnownPatterns == {GetAnnotationRules[i].Pattern : i \in RuleIndexes}

\* A detector that forgets the prefix test.
RECURSIVE UnknownFromNoPrefix(_, _)
UnknownFromNoPrefix(order, i) ==
    IF i > Len(order) THEN <<>>
    ELSE (IF order[i] \notin KnownPatterns THEN <<order[i]>> ELSE <<>>)
         \o UnknownFromNoPrefix(order, i + 1)

RECURSIVE UnknownFrom(_, _)
UnknownFrom(order, i) ==
    IF i > Len(order) THEN <<>>
    ELSE (IF HasPrefix(order[i], NginxPrefix) /\ order[i] \notin KnownPatterns
          THEN <<order[i]>> ELSE <<>>) \o UnknownFrom(order, i + 1)

\* GetUnknownNginxAnnotations(annotations), keys visited in the given order.
GetUnknownNginxAnnotations(annotations, order) == UnknownFrom(order, 1)

RECURSIVE HighestFrom(_, _, _)
HighestFrom(rules, i, highestRisk) ==
    IF i > Len(rules) THEN highestRisk
    ELSE IF rules[i].RiskLevel = RiskHigh THEN RiskHigh
    ELSE IF rules[i].RiskLevel = RiskManual THEN HighestFrom(rules, i + 1, RiskManual)
    ELSE HighestFrom(rules, i + 1, highestRisk)

RECURSIVE LastFrom(_, _, _)
LastFrom(rules, i, highestRisk) ==
    IF i > Len(rules) THEN highestRisk
    ELSE LastFrom(rules, i + 1, rules[i].RiskLevel)

\* A resolver without precedence: the last rule seen decides.
GetHighestRiskLevelLastWins(rules) ==
    IF Len(rules) = 0 THEN RiskAuto ELSE LastFrom(rules, 1, RiskAuto)

\* A resolver that takes the level of the first rule.
GetHighestRiskLevelFirstWins(rules) ==
    IF Len(rules) = 0 THEN RiskAuto ELSE rules[1].RiskLevel

\* A resolver without the answer for the empty list.
GetHighestRiskLevelNoDefault(rules) ==
    IF Len(rules) = 0 THEN NoRisk ELSE HighestFrom(rules, 1, RiskAuto)

\* GetHighestRiskLevel: HIGH_RISK returns at once, MANUAL is remembered.
GetHighestRiskLevel(rules) ==
    IF Len(rules) = 0 THEN RiskAuto ELSE HighestFrom(rules, 1, RiskAuto)

(***************************************************************************)
(* package discovery: which ingresses are analysed, and their conversion.  *)
(***************************************************************************)
NoClass == "<nil>"

IngressClassAnnotation == "kubernetes.io/ingress.class"

\* A test that looks at the class only, not at the annotation keys.
isNginxIngressByClass(ingress) ==
    \/ ingress.IngressClassName # NoClass /\ ingress.IngressClassName = "nginx"
    \/ /\ IngressClassAnnotation \in DOMAIN ingress.Annotations
       /\ ingress.Annotations[IngressClassAnnotation] = "nginx"

\* isNginxIngress: class name nginx, or legacy class annotation nginx, or
\* some annotation key with the nginx prefix.
isNginxIngress(ingress) ==
    \/ ingress.IngressClassName # NoClass /\ ingress.IngressClassName = "nginx"
    \/ /\ IngressClassAnnotation \in DOMAIN ingress.Annotations
       /\ ingress.Annotations[IngressClassAnnotation] = "nginx"
    \/ \E key \in DOMAIN ingress.Annotations : HasPrefix(key, NginxPrefix)

\* getIngressClass: spec.ingressClassName, else the legacy annotation, else "".
getIngressClass(ingress) ==
    IF ingress.IngressClassName # NoClass THEN ingress.IngressClassName
    ELSE IF IngressClassAnnotation \in DOMAIN ingress.Annotations
         THEN ingress.Annotations[IngressClassAnnotation]
         ELSE ""

\* convertToModel for one ingress (copyMap copies the annotation map).
convertToModel(ingress) ==
    [Namespace   |-> ingress.Namespace,
     ClassName   |-> getIngressClass(ingress),
     Annotations |-> ingress.Annotations]

RECURSIVE SelectSeq2(_, _)
SelectSeq2(s, i) ==
    IF i > Len(s) THEN <<>>
    ELSE (IF isNginxIngress(s[i]) THEN <<s[i]>> ELSE <<>>) \o SelectSeq2(s, i + 1)

\* filterNginxIngresses keeps, in order, the ingresses that use nginx.
filterNginxIngresses(ingresses) == SelectSeq2(ingresses, 1)

(***************************************************************************)
(* package analyze: the per-resource analysis.                             *)
(***************************************************************************)
RECURSIVE SnippetWarnings(_, _)
SnippetWarnings(matchedRules, i) ==
    IF i > Len(matchedRules) THEN <<>>
    ELSE (IF Contains(matchedRules[i].Pattern, "snippet")
          THEN <<"Contains " \o matchedRules[i].Name
                    \o ": requires manual review and reimplementation">>
          ELSE <<>>) \o SnippetWarnings(matchedRules, i + 1)

DeprecatedClassWarning ==
    "Uses deprecated kubernetes.io/ingress.class annotation instead of spec.ingressClassName"

\* generateWarnings(resource, matchedRules); unknown is its own call of
\* GetUnknownNginxAnnotations, of which only the length is used.
generateWarnings(resource, matchedRules, order) ==
    LET unknown == GetUnknownNginxAnnotations(resource.Annotations, order)
    IN  SnippetWarnings(matchedRules, 1)
        \o (IF Len(unknown) > 0
            THEN <<"Contains " \o ToString(Len(unknown)) \o " unknown nginx annotations">>
            ELSE <<>>)
        \o (IF /\ IngressClassAnnotation \in DOMAIN resource.Annotations
               /\ resource.Annotations[IngressClassAnnotation] = "nginx"
               /\ resource.ClassName = ""
            THEN <<DeprecatedClassWarning>> ELSE <<>>)

\* analyzeIngress(resource); matchOrder and unknownOrder are the iteration
\* orders of the annotation map in MatchAnnotations and in
\* GetUnknownNginxAnnotations.
analyzeIngress(resource, matchOrder, unknownOrder) ==
    LET matchedRules == MatchAnnotations(resource.Annotations, matchOrder)
    IN  [Resource           |-> resource,
         MatchedRules       |-> matchedRules,
         RiskLevel          |-> GetHighestRiskLevel(matchedRules),
         UnknownAnnotations |->
             GetUnknownNginxAnnotations(resource.Annotations, unknownOrder),
         Warnings           |-> generateWarnings(resource, matchedRules, unknownOrder)]

\* Every Analysis analyzeIngress can return for the resource.
AnalysesOf(resource) ==
    {analyzeIngress(resource, mo, uo) :
        mo \in Orders(DOMAIN resource.Annotations),
        uo \in Orders(DOMAIN resource.Annotations)}

\* The loop of AnalyzeCluster over the scanned ingresses: every list of
\* Analyses it can build.
RECURSIVE AnalysisLists(_, _)
AnalysisLists(ingresses, i) ==
    IF i > Len(ingresses) THEN {<<>>}
    ELSE {<<a>> \o rest : a \in AnalysesOf(convertToModel(ingresses[i])),
                          rest \in AnalysisLists(ingresses, i + 1)}

ZeroNamespaceSummary == [AutoCount |-> 0, ManualCount |-> 0, HighRiskCount |-> 0]

\* summary.ByNamespace[ns]: the zero value when ns has no entry yet.
NamespaceEntry(byNamespace, ns) ==
    IF ns \in DOMAIN byNamespace THEN byNamespace[ns] ELSE ZeroNamespaceSummary

\* One iteration of the loop of generateSummary.
CountAnalysis(s, analysis) ==
    LET ns == analysis.Resource.Namespace
        old == NamespaceEntry(s.ByNamespace, ns)
        new == [AutoCount     |-> old.AutoCount
                                  + (IF analysis.RiskLevel = RiskAuto THEN 1 ELSE 0),
                ManualCount   |-> old.ManualCount
                                  + (IF analysis.RiskLevel = RiskManual THEN 1 ELSE 0),
                HighRiskCount |-> old.HighRiskCount
                                  + (IF analysis.RiskLevel = RiskHigh THEN 1 ELSE 0)]
    IN  [TotalIngresses |-> s.TotalIngresses,
         AutoCount      |-> s.AutoCount
                            + (IF analysis.RiskLevel = RiskAuto THEN 1 ELSE 0),
         ManualCount    |-> s.ManualCount
                            + (IF analysis.RiskLevel = RiskManual THEN 1 ELSE 0),
         HighRiskCount  |-> s.HighRiskCount
                            + (IF analysis.RiskLevel = RiskHigh THEN 1 ELSE 0),
         ByNamespace    |-> [n \in DOMAIN s.ByNamespace \cup {ns} |->
                                IF n = ns THEN new ELSE s.ByNamespace[n]]]

RECURSIVE SummaryFrom(_, _, _)
SummaryFrom(list, i, s) ==
    IF i > Len(list) THEN s
    ELSE SummaryFrom(list, i + 1, CountAnalysis(s, list[i]))

EmptyMap == [k \in {} |-> 0]

\* A summary loop that drops the HIGH_RISK case of the global switch.
generateSummaryNoHigh(list) ==
    LET s == SummaryFrom(list, 1,
                 [TotalIngresses |-> Len(list), AutoCount |-> 0, ManualCount |-> 0,
                  HighRiskCount |-> 0, ByNamespace |-> EmptyMap])
    IN  [s EXCEPT !.HighRiskCount = 0]

\* generateSummary(analyses).
generateSummary(list) ==
    SummaryFrom(list, 1,
        [TotalIngresses |-> Len(list), AutoCount |-> 0, ManualCount |-> 0,
         HighRiskCount |-> 0, ByNamespace |-> EmptyMap])

(***************************************************************************)
(* package analyze: the annotation inventory.                              *)
(***************************************************************************)
SystemPrefixes ==
    <<"kubectl.kubernetes.io/",
      "deployment.kubernetes.io/",
      "control-plane.alpha.kubernetes.io/",
      "pv.kubernetes.io/",
      "volume.beta.kubernetes.io/",
      "alpha.kubernetes.io/",
      "beta.kubernetes.io/",
      "node.alpha.kubernetes.io/",
      "scheduler.alpha.kubernetes.io/",
      "autoscaling.alpha.kubernetes.io/",
      "controller.kubernetes.io/">>

SystemAnnotations ==
    <<"kubernetes.io/ingress.class",
      "field.cattle.io/publicEndpoints",
      "meta.helm.sh/release-name",
      "meta.helm.sh/release-namespace">>

\* A filter that knows the prefixes only.
isSystemAnnotationPrefixOnly(key) ==
    \E i \in DOMAIN SystemPrefixes : HasPrefix(key, SystemPrefixes[i])

isSystemAnnotation(key) ==
    \/ \E i \in DOMAIN SystemPrefixes : HasPrefix(key, SystemPrefixes[i])
    \/ \E i \in DOMAIN SystemAnnotations : key = SystemAnnotations[i]

\* The AnnotationUsage that getOrCreateUsage creates.
NewUsage(key) ==
    [Key           |-> key,
     UniqueValues  |-> <<>>,
     UsageCount    |-> 0,
     Namespaces    |-> <<>>,
     ValueExamples |-> EmptyMap,
     Risk          |-> NoRisk,
     Description   |-> "",
     MigrationNote |-> "",
     SourceURL     |-> ""]

\* getOrCreateUsage: the map with an entry for key.
getOrCreateUsage(usageMap, key) ==
    IF key \in DOMAIN usageMap THEN usageMap ELSE usageMap @@ (key :> NewUsage(key))

InSeq(x, s) == \E i \in DOMAIN s : s[i] = x

\* An update that counts a value on its first appearance only.
updateUsageFirstValue(usage, value, namespace) ==
    [usage EXCEPT
        !.UsageCount    = @ + 1,
        !.UniqueValues  = IF InSeq(value, @) THEN @ ELSE Append(@, value),
        !.Namespaces    = IF InSeq(namespace, @) THEN @ ELSE Append(@, namespace),
        !.ValueExamples = IF value \in DOMAIN @ THEN @ ELSE @ @@ (value :> 1)]

\* An update that appends the namespace without looking for it first.
updateUsageNoDedup(usage, value, namespace) ==
    [usage EXCEPT
        !.UsageCount    = @ + 1,
        !.UniqueValues  = IF InSeq(value, @) THEN @ ELSE Append(@, value),
        !.Namespaces    = Append(@, namespace),
        !.ValueExamples = IF value \in DOMAIN @
                          THEN [@ EXCEPT ![value] = @ + 1]
                          ELSE @ @@ (value :> 1)]

\* updateUsage(usage, value, namespace).
updateUsage(usage, value, namespace) ==
    [usage EXCEPT
        !.UsageCount    = @ + 1,
        !.UniqueValues  = IF InSeq(value, @) THEN @ ELSE Append(@, value),
        !.Namespaces    = IF InSeq(namespace, @) THEN @ ELSE Append(@, namespace),
        !.ValueExamples = IF value \in DOMAIN @
                          THEN [@ EXCEPT ![value] = @ + 1]
                          ELSE @ @@ (value :> 1)]

\* getOrCreateUsage followed by updateUsage on the entry.
Record(usageMap, key, value, namespace) ==
    LET m == getOrCreateUsage(usageMap, key)
    IN  [m EXCEPT ![key] = updateUsage(m[key], value, namespace)]

UnknownDescription == "Unknown nginx annotation - not in current knowledge base"

UnknownMigrationNote ==
    "This annotation is not documented in our migration rules. Please research Gateway API equivalent or file an issue."

\* The risk and migration info set on an entry of NginxAnnotations.
WithRuleInfo(usage, key) ==
    LET rule == GetRuleByPattern(key)
    IN  IF rule # NoRule
        THEN [usage EXCEPT !.Risk = rule.RiskLevel,
                           !.Description = rule.Description,
                           !.MigrationNote = rule.MigrationNote,
                           !.SourceURL = rule.SourceURL]
        ELSE [usage EXCEPT !.Risk = RiskUnknown,
                           !.Description = UnknownDescription,
                           !.MigrationNote = UnknownMigrationNote,
                           !.SourceURL = ""]

\* An inventory that puts nginx keys without a rule in the unknown view only.
RecordAnnotationSplit(inv, key, value, namespace) ==
    IF isSystemAnnotation(key) THEN inv
    ELSE LET all == Record(inv.AllAnnotations, key, value, namespace)
         IN  IF HasPrefix(key, NginxPrefix) /\ GetRuleByPattern(key) # NoRule
             THEN LET nginx == Record(inv.NginxAnnotations, key, value, namespace)
                  IN  [inv EXCEPT !.AllAnnotations = all,
                                  !.NginxAnnotations =
                                      [nginx EXCEPT ![key] = WithRuleInfo(@, key)]]
             ELSE [inv EXCEPT !.AllAnnotations = all]

\* The body of the loop over analysis.Resource.Annotations for one key.
RecordAnnotation(inv, key, value, namespace) ==
    IF isSystemAnnotation(key) THEN inv
    ELSE LET all == Record(inv.AllAnnotations, key, value, namespace)
         IN  IF HasPrefix(key, NginxPrefix)
             THEN LET nginx == Record(inv.NginxAnnotations, key, value, namespace)
                  IN  [inv EXCEPT !.AllAnnotations = all,
                                  !.NginxAnnotations =
                                      [nginx EXCEPT ![key] = WithRuleInfo(@, key)]]
             ELSE [inv EXCEPT !.AllAnnotations = all]

RECURSIVE RecordAnnotations(_, _, _, _)
RecordAnnotations(inv, analysis, order, i) ==
    IF i > Len(order) THEN inv
    ELSE RecordAnnotations(
             RecordAnnotation(inv, order[i], analysis.Resource.Annotations[order[i]],
                              analysis.Resource.Namespace),
             analysis, order, i + 1)

\* A loop that records an unknown key on its first appearance only.
RECURSIVE RecordUnknownOnce(_, _, _)
RecordUnknownOnce(inv, analysis, i) ==
    IF i > Len(analysis.UnknownAnnotations) THEN inv
    ELSE LET unknown == analysis.UnknownAnnotations[i]
         IN  RecordUnknownOnce(
                 IF unknown \in DOMAIN inv.UnknownAnnotations THEN inv
                 ELSE [inv EXCEPT !.UnknownAnnotations =
                          Record(@, unknown, analysis.Resource.Annotations[unknown],
                                 analysis.Resource.Namespace)],
                 analysis, i + 1)

\* The loop over analysis.UnknownAnnotations.
RECURSIVE RecordUnknown(_, _, _)
RecordUnknown(inv, analysis, i) ==
    IF i > Len(analysis.UnknownAnnotations) THEN inv
    ELSE LET unknown == analysis.UnknownAnnotations[i]
         IN  RecordUnknown(
                 [inv EXCEPT !.UnknownAnnotations =
                     Record(@, unknown, analysis.Resource.Annotations[unknown],
                            analysis.Resource.Namespace)],
                 analysis, i + 1)

\* The loop over the analyses; orders[i] is the iteration order of the
\* annotation map of the i-th analysis.
RECURSIVE RecordAnalyses(_, _, _, _)
RecordAnalyses(inv, list, orders, i) ==
    IF i > Len(list) THEN inv
    ELSE RecordAnalyses(
             RecordUnknown(RecordAnnotations(inv, list[i], orders[i], 1), list[i], 1),
             list, orders, i + 1)

\* A scan that keeps the first key it visits.
MostUsedFromFirst(all, order, i, maxUsage, mostUsed) ==
    IF order = <<>> THEN mostUsed ELSE order[1]

\* The loop of generateInventorySummary over AllAnnotations, in the given
\* iteration order: a key replaces the current one on a larger count only.
RECURSIVE MostUsedFrom(_, _, _, _, _)
MostUsedFrom(all, order, i, maxUsage, mostUsed) ==
    IF i > Len(order) THEN mostUsed
    ELSE IF all[order[i]].UsageCount > maxUsage
         THEN MostUsedFrom(all, order, i + 1, all[order[i]].UsageCount, order[i])
         ELSE MostUsedFrom(all, order, i + 1, maxUsage, mostUsed)

generateInventorySummary(inv, order) ==
    [TotalUniqueAnnotations  |-> Cardinality(DOMAIN inv.AllAnnotations),
     NginxAnnotationsCount   |-> Cardinality(DOMAIN inv.NginxAnnotations),
     UnknownAnnotationsCount |-> Cardinality(DOMAIN inv.UnknownAnnotations),
     MostUsedAnnotation      |-> MostUsedFrom(inv.AllAnnotations, order, 1, 0, ""),
     MostComplexNamespace    |-> ""]

EmptyInventory ==
    [Built              |-> TRUE,
     AllAnnotations     |-> EmptyMap,
     NginxAnnotations   |-> EmptyMap,
     UnknownAnnotations |-> EmptyMap,
     Summary            |-> [TotalUniqueAnnotations |-> 0, NginxAnnotationsCount |-> 0,
                             UnknownAnnotationsCount |-> 0, MostUsedAnnotation |-> "",
                             MostComplexNamespace |-> ""]]

\* The choices of one iteration order per analysis.
RECURSIVE MapOrdersFrom(_, _)
MapOrdersFrom(list, i) ==
    IF i > Len(list) THEN {<<>>}
    ELSE {<<o>> \o os : o \in Orders(DOMAIN list[i].Resource.Annotations),
                        os \in MapOrdersFrom(list, i + 1)}

MapOrders(list) == MapOrdersFrom(list, 1)

\* Every inventory BuildAnnotationInventory(list) can return.
Inventories(list) ==
    UNION {LET inv == RecordAnalyses(EmptyInventory, list, os, 1)
           IN  {[inv EXCEPT !.Summary = generateInventorySummary(inv, o)] :
                    o \in Orders(DOMAIN inv.AllAnnotations)} :
           os \in MapOrders(list)}

\* The list in another order.
Permuted(list, p) == [i \in 1..Len(list) |-> list[p[i]]]

\* A collection loop that takes every record of NginxAnnotations.
RECURSIVE AnyRiskFrom(_, _, _)
AnyRiskFrom(nginx, order, i) ==
    IF i > Len(order) THEN <<>>
    ELSE <<nginx[order[i]]>> \o AnyRiskFrom(nginx, order, i + 1)

\* The records of NginxAnnotations with risk HIGH_RISK, in iteration order.
RECURSIVE HighRiskFrom(_, _, _)
HighRiskFrom(nginx, order, i) ==
    IF i > Len(order) THEN <<>>
    ELSE (IF nginx[order[i]].Risk = RiskHigh THEN <<nginx[order[i]]>> ELSE <<>>)
         \o HighRiskFrom(nginx, order, i + 1)

\* The loop over UnknownAnnotations sets Risk on each record it visits.
MarkUnknown(unknown) == [k \in DOMAIN unknown |-> [unknown[k] EXCEPT !.Risk = RiskUnknown]]

\* An insertion that moves a record left of the records used more often.
RECURSIVE InsertByUsageAscending(_, _)
InsertByUsageAscending(sorted, usage) ==
    IF sorted = <<>> THEN <<usage>>
    ELSE LET last == sorted[Len(sorted)]
         IN  IF usage.UsageCount < last.UsageCount
             THEN Append(InsertByUsageAscending(SubSeq(sorted, 1, Len(sorted) - 1), usage),
                         last)
             ELSE Append(sorted, usage)

\* sort.Slice with less(i, j) = UsageCount[i] > UsageCount[j].  Slices of at
\* most twelve elements are sorted by insertion: each element moves left
\* while it is less than its left neighbour.
RECURSIVE InsertByUsage(_, _)
InsertByUsage(sorted, usage) ==
    IF sorted = <<>> THEN <<usage>>
    ELSE LET last == sorted[Len(sorted)]
         IN  IF usage.UsageCount > last.UsageCount
             THEN Append(InsertByUsage(SubSeq(sorted, 1, Len(sorted) - 1), usage), last)
             ELSE Append(sorted, usage)

RECURSIVE SortByUsageFrom(_, _, _)
SortByUsageFrom(list, i, sorted) ==
    IF i > Len(list) THEN sorted
    ELSE SortByUsageFrom(list, i + 1, InsertByUsage(sorted, list[i]))

\* The slice as collected, without the sort.
SortByUsageNone(list) == list

SortByUsage(list) == SortByUsageFrom(list, 1, <<>>)

\* The slice critical of GetMostCriticalAnnotations after the sort.
CriticalList(inv, nginxOrder, unknownOrder) ==
    LET marked == MarkUnknown(inv.UnknownAnnotations)
    IN  SortByUsage(HighRiskFrom(inv.NginxAnnotations, nginxOrder, 1)
                    \o [i \in 1..Len(unknownOrder) |-> marked[unknownOrder[i]]])

\* The first loop of GetAnnotationsByRisk: each record of NginxAnnotations
\* is appended to the slice of its risk, in iteration order.
RECURSIVE GroupByRiskFrom(_, _, _, _)
GroupByRiskFrom(nginx, order, i, groups) ==
    IF i > Len(order) THEN groups
    ELSE LET usage == nginx[order[i]]
         IN  GroupByRiskFrom(nginx, order, i + 1,
                 IF usage.Risk \in DOMAIN groups
                 THEN [groups EXCEPT ![usage.Risk] = Append(@, usage)]
                 ELSE groups @@ (usage.Risk :> <<usage>>))

\* The second loop: each slice is sorted by UsageCount, largest first.
AnnotationsByRisk(nginx, order) ==
    LET groups == GroupByRiskFrom(nginx, order, 1, EmptyMap)
    IN  [r \in DOMAIN groups |-> SortByUsage(groups[r])]

\* A prefix that is one record too long.
TruncatedOneMore(list, n) ==
    IF Len(list) > n THEN SubSeq(list, 1, n + 1) ELSE list

\* if len(critical) > limit { return critical[:limit] }; return critical
Truncated(list, n) ==
    IF Len(list) > n THEN SubSeq(list, 1, n) ELSE list

(***************************************************************************)
(* float64 arithmetic on the quotients of the report: a value is a         *)
(* significand m of Precision bits, most significant first, whose first    *)
(* bit has weight 2^e; zero has the empty significand.  Every operation    *)
(* rounds to nearest, ties to even.                                        *)
(***************************************************************************)
Precision == 53

Float64Zero == [m |-> <<>>, e |-> 0]

Zeros(n) == IF n > 0 THEN [i \in 1..n |-> 0] ELSE <<>>

RECURSIVE StripZeros(_)
StripZeros(bits) ==
    IF bits # <<>> /\ bits[1] = 0 THEN StripZeros(Tail(bits)) ELSE bits

\* The number a bit string stands for, and the n-bit string of a number.
RECURSIVE BitsValue(_)
BitsValue(bits) ==
    IF bits = <<>> THEN 0
    ELSE 2 * BitsValue(SubSeq(bits, 1, Len(bits) - 1)) + bits[Len(bits)]

BitsOf(value, n) == [i \in 1..n |-> (value \div 2^(n - i)) % 2]

\* m + 1 for a bit string that holds a 0: the last 0 becomes 1 and the ones
\* after it 0.
Increment(m) ==
    LET z == CHOOSE i \in DOMAIN m : m[i] = 0 /\ \A k \in (i + 1)..Len(m) : m[k] = 1
    IN  [i \in DOMAIN m |-> IF i < z THEN m[i] ELSE IF i = z THEN 1 ELSE 0]

\* The bit string bits (first bit 1, weight 2^e) followed by a non-zero
\* tail iff sticky, rounded to Precision bits.
RoundToPrecision(bits, sticky, e) ==
    LET all  == bits \o Zeros(Precision + 1 - Len(bits))
        m    == SubSeq(all, 1, Precision)
        rest == \/ sticky
                \/ \E i \in (Precision + 2)..Len(all) : all[i] = 1
        up   == all[Precision + 1] = 1 /\ (rest \/ m[Precision] = 1)
    IN  IF ~up THEN [m |-> m, e |-> e]
        ELSE IF \A i \in DOMAIN m : m[i] = 1
             THEN [m |-> <<1>> \o Zeros(Precision - 1), e |-> e + 1]
             ELSE [m |-> Increment(m), e |-> e]

\* a / b = (x / y) * 2^e with y <= x < 2y.
RECURSIVE Normalised(_, _, _)
Normalised(a, b, e) ==
    IF a < b THEN Normalised(2 * a, b, e - 1)
    ELSE IF a >= 2 * b THEN Normalised(a, 2 * b, e + 1)
    ELSE [x |-> a, y |-> b, e |-> e]

\* 2^k mod y, by squaring.
RECURSIVE PowerOfTwoMod(_, _)
PowerOfTwoMod(k, y) ==
    IF k = 0 THEN 1 % y
    ELSE LET half == PowerOfTwoMod(k \div 2, y)
         IN  (half * half * (IF k % 2 = 1 THEN 2 ELSE 1)) % y

\* The remainder of the long division of x by y after k bits of the
\* quotient: (2^(k-1) * x) mod y.
QuotientRest(x, y, k) == (PowerOfTwoMod(k - 1, y) * (x % y)) % y

\* The first n bits of x / y for y <= x < 2y: the first bit is 1, and bit k
\* tells whether twice the remainder after k - 1 bits reaches y.
QuotientBits(x, y, n) ==
    [k \in 1..n |->
        IF k = 1 THEN 1
        ELSE IF 2 * QuotientRest(x, y, k - 1) >= y THEN 1 ELSE 0]

\* float64(a) / float64(b) for integers a >= 0, b > 0.
Float64Div(a, b) ==
    IF a = 0 THEN Float64Zero
    ELSE LET n == Normalised(a, b, 0)
         IN  RoundToPrecision(QuotientBits(n.x, n.y, Precision + 1),
                              QuotientRest(n.x, n.y, Precision + 1) # 0, n.e)

\* m * 25 for a significand m, in three limbs of at most 18 bits.
Times25(m) ==
    LET low  == 25 * BitsValue(SubSeq(m, Precision - 17, Precision))
        mid  == 25 * BitsValue(SubSeq(m, Precision - 35, Precision - 18))
                    + low \div 2^18
        high == 25 * BitsValue(SubSeq(m, 1, Precision - 36)) + mid \div 2^18
    IN  BitsOf(high, Precision - 36 + 5) \o BitsOf(mid % 2^18, 18)
            \o BitsOf(low % 2^18, 18)

\* x * 100: the significand times 25, the exponent plus 2.
Float64Mul100(x) ==
    IF x = Float64Zero THEN Float64Zero
    ELSE LET p == StripZeros(Times25(x.m))
         IN  RoundToPrecision(p, FALSE, x.e + 2 + Len(p) - Precision)

\* x > t for an integer t >= 0 and x < 2^Precision.
Float64Greater(x, t) ==
    IF x = Float64Zero THEN FALSE
    ELSE IF x.e < 0 THEN t = 0
    ELSE LET whole == BitsValue(SubSeq(x.m, 1, x.e + 1))
         IN  \/ whole > t
             \/ whole = t /\ \E i \in (x.e + 2)..Precision : x.m[i] = 1

(***************************************************************************)
(* The inventory report: migration complexity by namespace.                *)
(***************************************************************************)
HighComplexity == "HIGH complexity (many high-risk annotations)"

MediumComplexity == "MEDIUM complexity (some high-risk annotations)"

LowComplexity == "LOW complexity (mostly auto-migratable)"

\* riskCounts[risk], 0 for a risk the map has no entry for.
RiskCount(riskCounts, risk) ==
    IF risk \in DOMAIN riskCounts THEN riskCounts[risk] ELSE 0

\* An accumulation that counts the record, not its usages.
AddRiskCountOne(acc, namespace, risk, n) ==
    LET riskCounts == IF namespace \in DOMAIN acc THEN acc[namespace] ELSE EmptyMap
    IN  [k \in DOMAIN acc \cup {namespace} |->
            IF k = namespace
            THEN [r \in DOMAIN riskCounts \cup {risk} |->
                     IF r = risk THEN RiskCount(riskCounts, risk) + 1
                     ELSE riskCounts[r]]
            ELSE acc[k]]

\* namespaceAnnotations[namespace][risk] += n, creating the inner map.
AddRiskCount(acc, namespace, risk, n) ==
    LET riskCounts == IF namespace \in DOMAIN acc THEN acc[namespace] ELSE EmptyMap
    IN  [k \in DOMAIN acc \cup {namespace} |->
            IF k = namespace
            THEN [r \in DOMAIN riskCounts \cup {risk} |->
                     IF r = risk THEN RiskCount(riskCounts, risk) + n
                     ELSE riskCounts[r]]
            ELSE acc[k]]

\* The inner loop over usage.Namespaces.
RECURSIVE AddUsage(_, _, _)
AddUsage(acc, usage, j) ==
    IF j > Len(usage.Namespaces) THEN acc
    ELSE AddUsage(AddRiskCount(acc, usage.Namespaces[j], usage.Risk, usage.UsageCount),
                  usage, j + 1)

\* The loop over inventory.NginxAnnotations, in iteration order.
RECURSIVE NamespaceAnnotationsFrom(_, _, _, _)
NamespaceAnnotationsFrom(nginx, order, i, acc) ==
    IF i > Len(order) THEN acc
    ELSE NamespaceAnnotationsFrom(nginx, order, i + 1, AddUsage(acc, nginx[order[i]], 1))

RiskTotal(riskCounts) ==
    RiskCount(riskCounts, RiskAuto) + RiskCount(riskCounts, RiskManual)
        + RiskCount(riskCounts, RiskHigh)

\* Labels that take the boundary percentages into the upper class.
ComplexityLabelInclusive(riskCounts) ==
    IF RiskCount(riskCounts, RiskHigh) * 100 >= 50 * RiskTotal(riskCounts)
    THEN HighComplexity
    ELSE IF RiskCount(riskCounts, RiskHigh) * 100 >= 20 * RiskTotal(riskCounts)
         THEN MediumComplexity
         ELSE LowComplexity

\* The label of a namespace with a non-zero total.
ComplexityLabel(riskCounts) ==
    LET highRiskPercent ==
            Float64Mul100(Float64Div(RiskCount(riskCounts, RiskHigh),
                                     RiskTotal(riskCounts)))
    IN  IF Float64Greater(highRiskPercent, 50) THEN HighComplexity
        ELSE IF Float64Greater(highRiskPercent, 20) THEN MediumComplexity
        ELSE LowComplexity

\* The second loop: namespaces with total 0 are skipped.
NamespaceLabels(acc) ==
    [n \in {k \in DOMAIN acc : RiskTotal(acc[k]) # 0} |-> ComplexityLabel(acc[n])]

(***************************************************************************)
(* The inputs: ingresses as the API server returns them.                   *)
(***************************************************************************)
Namespaces == {"prod", "staging"}

Values == {"nginx", "on"}

\* The maps of at most MaxAnnotations keys, one value for all keys of a map.
AnnotationMaps ==
    {[k \in S |-> v] :
        S \in {T \in SUBSET Keys : Cardinality(T) <= MaxAnnotations}, v \in Values}

\* Any single ingress, for the per-resource pass.
Ingresses ==
    [Namespace : Namespaces, IngressClassName : {NoClass, "nginx"},
     Annotations : AnnotationMaps]

Map1(k, v) == (k :> v)

Map2(k1, v1, k2, v2) == (k1 :> v1) @@ (k2 :> v2)

\* The annotation maps of the ingresses of the scanned cluster.
ClusterMaps ==
    {EmptyMap,
     Map1("nginx.ingress.kubernetes.io/rewrite-target", "on"),
     Map1("nginx.ingress.kubernetes.io/server-snippet", "on"),
     Map1("nginx.ingress.kubernetes.io/custom-unknown", "on"),
     Map1("cert-manager.io/issuer", "on"),
     Map1("my.nginx.ingress.kubernetes.io/server-snippet", "on"),
     Map2("nginx.ingress.kubernetes.io/server-snippet", "nginx",
          "nginx.ingress.kubernetes.io/custom-unknown", "on"),
     Map2("nginx.ingress.kubernetes.io/rate-limit", "on",
          "cert-manager.io/issuer", "nginx"),
     Map2("nginx.ingress.kubernetes.io/server-snippet", "on",
          "kubernetes.io/ingress.class", "nginx"),
     Map2("nginx.ingress.kubernetes.io/rate-limit-rps", "on",
          "kubectl.kubernetes.io/last-applied-configuration", "on")}

ClusterIngresses ==
    [Namespace : Namespaces, IngressClassName : {"nginx"}, Annotations : ClusterMaps]

\* The lists of at most MaxResources ingresses of the cluster.
ClusterLists ==
    UNION {[1..n -> ClusterIngresses] : n \in 0..MaxResources}

(***************************************************************************)
(* State.                                                                  *)
(***************************************************************************)
NoSummary == [TotalIngresses |-> -1]

NoInventory == [Built |-> FALSE]

NoScan == [step |-> "none"]

Init ==
    /\ pc = "start"
    /\ analyses = <<>>
    /\ summary = NoSummary
    /\ inventory = NoInventory
    /\ previous = NoInventory
    /\ critical = <<>>
    /\ returned = <<>>
    /\ limit = 0
    /\ namespaceAnnotations = EmptyMap
    /\ namespaceMap = EmptyMap
    /\ byRisk = EmptyMap
    /\ listed = <<>>
    /\ scan = NoScan

\* A direct call of analyzeIngress on one scanned ingress.
AnalyzeIngress ==
    /\ pc = "start"
    /\ \E ingress \in Ingresses :
         /\ isNginxIngress(ingress)
         /\ \E a \in AnalysesOf(convertToModel(ingress)) : analyses' = <<a>>
         /\ listed' = <<ingress>>
    /\ pc' = "analysis"
    /\ UNCHANGED <<summary, inventory, previous, critical, returned, limit, namespaceAnnotations,
                 namespaceMap, byRisk, scan>>

\* AnalyzeCluster: scan, analyse every nginx ingress, summarise.
AnalyzeCluster ==
    /\ pc = "start"
    /\ \E ingresses \in ClusterLists :
         LET kept == filterNginxIngresses(ingresses)
         IN  \E list \in AnalysisLists(kept, 1) :
                /\ analyses' = list
                /\ summary' = generateSummary(list)
                /\ listed' = ingresses
    /\ pc' = "analyzed"
    /\ UNCHANGED <<inventory, previous, critical, returned, limit, namespaceAnnotations,
                 namespaceMap, byRisk, scan>>

\* BuildAnnotationInventory(analyses).
BuildAnnotationInventory ==
    /\ pc = "analyzed"
    /\ \E inv \in Inventories(analyses) : inventory' = inv
    /\ pc' = "built"
    /\ UNCHANGED <<analyses, summary, previous, critical, returned, limit, namespaceAnnotations,
                 namespaceMap, byRisk,
                   listed, scan>>

\* BuildAnnotationInventory called again on the same analyses, listed in
\* any order; the inventory of the first call is kept in previous.
RebuildAnnotationInventory ==
    /\ pc = "built"
    /\ \E p \in Orders(1..Len(analyses)) :
         \E inv \in Inventories(Permuted(analyses, p)) : inventory' = inv
    /\ previous' = inventory
    /\ pc' = "rebuilt"
    /\ UNCHANGED <<analyses, summary, critical, returned, limit, namespaceAnnotations,
                 namespaceMap, byRisk,
                   listed, scan>>

Limits == -1..MaxLimit

\* inventory.GetMostCriticalAnnotations(n); critical[:n] with a negative n
\* is a slice-bounds failure.  limit keeps the argument of the call.
GetMostCriticalAnnotations ==
    /\ pc \in {"built", "queried"}
    /\ \E n \in Limits :
         \E nginxOrder \in Orders(DOMAIN inventory.NginxAnnotations) :
           \E unknownOrder \in Orders(DOMAIN inventory.UnknownAnnotations) :
             LET list == CriticalList(inventory, nginxOrder, unknownOrder)
             IN  /\ critical' = list
                 /\ limit' = n
                 /\ IF Len(list) > n /\ n < 0
                    THEN pc' = "panic" /\ returned' = returned
                    ELSE pc' = "queried" /\ returned' = Truncated(list, n)
    /\ inventory' = [inventory EXCEPT !.UnknownAnnotations = MarkUnknown(@)]
    /\ UNCHANGED <<analyses, summary, previous, namespaceAnnotations,
                 namespaceMap, byRisk,
                   listed, scan>>

\* inventory.GetAnnotationsByRisk().
GetAnnotationsByRisk ==
    /\ pc \in {"built", "queried"}
    /\ \E order \in Orders(DOMAIN inventory.NginxAnnotations) :
         byRisk' = AnnotationsByRisk(inventory.NginxAnnotations, order)
    /\ pc' = "grouped"
    /\ UNCHANGED <<analyses, summary, inventory, previous, critical, returned, limit,
                   namespaceAnnotations, namespaceMap,
                   listed, scan>>

\* analyzeNamespaceComplexity(inventory), on the inventory of the scanned
\* cluster or on the inventory of a large cluster.
AnalyzeNamespaceComplexity ==
    /\ pc \in {"built", "large"}
    /\ \E order \in Orders(DOMAIN inventory.NginxAnnotations) :
         LET acc == NamespaceAnnotationsFrom(inventory.NginxAnnotations, order, 1, EmptyMap)
         IN  /\ namespaceAnnotations' = acc
             /\ namespaceMap' = NamespaceLabels(acc)
    /\ pc' = "scored"
    /\ UNCHANGED <<analyses, summary, inventory, previous, critical, returned, limit,
                   byRisk,
                   listed, scan>>

Next ==
    \/ AnalyzeIngress
    \/ AnalyzeCluster
    \/ BuildAnnotationInventory
    \/ RebuildAnnotationInventory
    \/ GetMostCriticalAnnotations
    \/ GetAnnotationsByRisk
    \/ AnalyzeNamespaceComplexity

Spec == Init /\ [][Next]_vars

(***************************************************************************)
(* The namespace report on the inventories of large clusters.              *)
(***************************************************************************)
ScoredKeys ==
    {"nginx.ingress.kubernetes.io/server-snippet",
     "nginx.ingress.kubernetes.io/rewrite-target",
     "nginx.ingress.kubernetes.io/rate-limit",
     "nginx.ingress.kubernetes.io/custom-unknown"}

\* The numbers of resources that carry a key.
LargeCounts(key) ==
    CASE key = "nginx.ingress.kubernetes.io/server-snippet" -> {1, 2, 21, 51}
      [] key = "nginx.ingress.kubernetes.io/rewrite-target" -> {1, 2, 4, 49, 79}
      [] key = "nginx.ingress.kubernetes.io/rate-limit"     -> {3, 8}
      [] OTHER                                              -> {1}

NamespaceLists == {<<"prod">>, <<"staging">>, <<"prod", "staging">>}

\* The record of a key that count resources carry with value "on", in the
\* namespaces listed.
LargeUsage(key, count, namespaces) ==
    [NewUsage(key) EXCEPT !.UniqueValues = <<"on">>,
                          !.UsageCount = count,
                          !.Namespaces = namespaces,
                          !.ValueExamples = ("on" :> count)]

\* The choices of a count and a namespace list for each key of a subset.
LargeUsages ==
    UNION {[S -> [count : UNION {LargeCounts(k) : k \in ScoredKeys},
                    namespaces : NamespaceLists]] :
              S \in SUBSET ScoredKeys}

LargeInventories ==
    {LET inv == [Built              |-> TRUE,
                 AllAnnotations     |->
                     [k \in DOMAIN u |-> LargeUsage(k, u[k].count, u[k].namespaces)],
                 NginxAnnotations   |->
                     [k \in DOMAIN u |->
                         WithRuleInfo(LargeUsage(k, u[k].count, u[k].namespaces), k)],
                 UnknownAnnotations |->
                     [k \in {x \in DOMAIN u : GetRuleByPattern(x) = NoRule} |->
                         LargeUsage(k, u[k].count, u[k].namespaces)],
                 Summary            |-> EmptyInventory.Summary]
     IN  [inv EXCEPT !.Summary =
             generateInventorySummary(inv, CHOOSE o \in Orders(DOMAIN u) : TRUE)] :
     u \in {v \in LargeUsages :
               \A k \in DOMAIN v : /\ v[k].count \in LargeCounts(k)
                                   /\ Len(v[k].namespaces) <= v[k].count}}

InitScore ==
    /\ pc = "large"
    /\ analyses = <<>>
    /\ summary = NoSummary
    /\ inventory \in LargeInventories
    /\ previous = NoInventory
    /\ critical = <<>>
    /\ returned = <<>>
    /\ limit = 0
    /\ namespaceAnnotations = EmptyMap
    /\ namespaceMap = EmptyMap
    /\ byRisk = EmptyMap
    /\ listed = <<>>
    /\ scan = NoScan

NextScore == AnalyzeNamespaceComplexity

SpecScore == InitScore /\ [][NextScore]_vars

(***************************************************************************)
(* The scan command: validateFlags, CreateAnalyzerClient, AnalyzeCluster   *)
(* on a cluster whose listings can fail, GenerateReport.                   *)
(***************************************************************************)
Formats == {"markdown", "json", "yaml"}

\* The namespaces of the cluster, in the order the API server lists them.
NamespaceNames == <<"prod", "staging">>

ScanClasses == {NoClass, "nginx", "traefik"}

ScanMaps ==
    {EmptyMap,
     Map1(IngressClassAnnotation, "nginx"),
     Map1(IngressClassAnnotation, "on"),
     Map1("nginx.ingress.kubernetes.io/rewrite-target", "on"),
     Map1("cert-manager.io/issuer", "on")}

\* The ingress lists of a namespace: no ingress or one ingress.
ScanItems(ns) ==
    {<<>>} \cup {<<[Namespace |-> ns, IngressClassName |-> c, Annotations |-> m]>> :
                    c \in ScanClasses, m \in ScanMaps}

\* A cluster: the ingresses of each namespace, the namespaces whose ingress
\* listing fails, and whether the namespace listing fails.
Clusters ==
    {[Items          |-> [n \in Namespaces |-> IF n = "prod" THEN a ELSE b],
      Failing        |-> f,
      NamespacesFail |-> nf] :
        a \in ScanItems("prod"), b \in ScanItems("staging"),
        f \in SUBSET Namespaces, nf \in BOOLEAN}

NoListing == [err |-> TRUE, ingresses |-> <<>>, warned |-> <<>>]

\* listIngressesInNamespace(namespace).
listIngressesInNamespace(cluster, namespace) ==
    IF namespace \in cluster.Failing
    THEN [err |-> TRUE, ingresses |-> <<>>]
    ELSE [err |-> FALSE, ingresses |-> cluster.Items[namespace]]

\* A loop over the namespaces that gives up at the first failing listing.
ListAllFromStrict(cluster, i, allIngresses, warned) ==
    IF \E n \in DOMAIN NamespaceNames : NamespaceNames[n] \in cluster.Failing
    THEN NoListing
    ELSE [err |-> FALSE,
          ingresses |-> cluster.Items[NamespaceNames[1]] \o cluster.Items[NamespaceNames[2]],
          warned |-> <<>>]

\* The loop of listIngresses over namespaces.Items: a failing namespace is
\* skipped with a warning.
RECURSIVE ListAllFrom(_, _, _, _)
ListAllFrom(cluster, i, allIngresses, warned) ==
    IF i > Len(NamespaceNames)
    THEN [err |-> FALSE, ingresses |-> allIngresses, warned |-> warned]
    ELSE LET r == listIngressesInNamespace(cluster, NamespaceNames[i])
         IN  IF r.err
             THEN ListAllFrom(cluster, i + 1, allIngresses, Append(warned, NamespaceNames[i]))
             ELSE ListAllFrom(cluster, i + 1, allIngresses \o r.ingresses, warned)

\* listIngresses, for the scanner's namespace ("" scans all namespaces).
listIngresses(cluster, namespace) ==
    IF namespace # ""
    THEN LET r == listIngressesInNamespace(cluster, namespace)
         IN  IF r.err THEN NoListing
             ELSE [err |-> FALSE, ingresses |-> r.ingresses, warned |-> <<>>]
    ELSE IF cluster.NamespacesFail THEN NoListing
    ELSE ListAllFrom(cluster, 1, <<>>, <<>>)

\* A validation that creates the output directory before it looks at the
\* format.
validateFlagsMkdirFirst(format, kubeconfigExists, mkdirOk) ==
    IF ~kubeconfigExists THEN [ok |-> FALSE, created |-> FALSE]
    ELSE IF ~mkdirOk THEN [ok |-> FALSE, created |-> FALSE]
    ELSE IF format # "markdown" /\ format # "json" THEN [ok |-> FALSE, created |-> TRUE]
    ELSE [ok |-> TRUE, created |-> TRUE]

\* validateFlags: the kubeconfig file exists, the format is markdown or
\* json, the output directory can be created.
validateFlags(format, kubeconfigExists, mkdirOk) ==
    IF ~kubeconfigExists THEN [ok |-> FALSE, created |-> FALSE]
    ELSE IF format # "markdown" /\ format # "json" THEN [ok |-> FALSE, created |-> FALSE]
    ELSE IF ~mkdirOk THEN [ok |-> FALSE, created |-> FALSE]
    ELSE [ok |-> TRUE, created |-> TRUE]

\* The command after flag parsing: events lists the steps run so far with
\* their outcome.
InitScan ==
    /\ pc = "scan"
    /\ analyses = <<>>
    /\ summary = NoSummary
    /\ inventory = NoInventory
    /\ previous = NoInventory
    /\ critical = <<>>
    /\ returned = <<>>
    /\ limit = 0
    /\ namespaceAnnotations = EmptyMap
    /\ namespaceMap = EmptyMap
    /\ byRisk = EmptyMap
    /\ listed = <<>>
    /\ \E format \in Formats, namespace \in {""} \cup Namespaces :
          scan = [step             |-> "start",
                  format           |-> format,
                  namespace        |-> namespace,
                  events           |-> <<>>,
                  outputDirCreated |-> FALSE,
                  reportWritten    |-> FALSE,
                  cluster          |-> [Items |-> EmptyMap],
                  warned           |-> <<>>,
                  totalIngresses   |-> 0]

Event(name, ok) == [name |-> name, ok |-> ok]

coreVars ==
    <<analyses, summary, inventory, previous, critical, returned, limit,
      namespaceAnnotations, namespaceMap, byRisk, listed>>

\* runScan: validateFlags().
ValidateFlags ==
    /\ pc = "scan"
    /\ scan.step = "start"
    /\ \E kubeconfigExists \in BOOLEAN, mkdirOk \in BOOLEAN :
         LET v == validateFlags(scan.format, kubeconfigExists, mkdirOk)
         IN  scan' = [scan EXCEPT
                         !.step = IF v.ok THEN "validated" ELSE "failed",
                         !.events = Append(@, Event("validate", v.ok)),
                         !.outputDirCreated = v.created]
    /\ UNCHANGED <<pc, coreVars>>

\* runScan: common.CreateAnalyzerClient(kubeconfig, contextName).
CreateAnalyzerClient ==
    /\ pc = "scan"
    /\ scan.step = "validated"
    /\ \E ok \in BOOLEAN :
         scan' = [scan EXCEPT !.step = IF ok THEN "connected" ELSE "failed",
                              !.events = Append(@, Event("connect", ok))]
    /\ UNCHANGED <<pc, coreVars>>

\* runScan: analyzer.AnalyzeCluster, which scans the cluster (listIngresses,
\* filterNginxIngresses, convertToModel), analyses every kept ingress and
\* summarises; a listing error ends the command.
AnalyzeScannedCluster ==
    /\ pc = "scan"
    /\ scan.step = "connected"
    /\ \E cluster \in Clusters :
         LET listing == listIngresses(cluster, scan.namespace)
         IN  IF listing.err
             THEN /\ scan' = [scan EXCEPT !.step = "failed",
                                          !.events = Append(@, Event("analyze", FALSE)),
                                          !.cluster = cluster]
                  /\ UNCHANGED <<analyses, summary, listed>>
             ELSE \E list \in AnalysisLists(filterNginxIngresses(listing.ingresses), 1) :
                    /\ scan' = [scan EXCEPT !.step = "analysed",
                                            !.events = Append(@, Event("analyze", TRUE)),
                                            !.cluster = cluster,
                                            !.warned = listing.warned,
                                            !.totalIngresses = Len(listing.ingresses)]
                    /\ listed' = listing.ingresses
                    /\ analyses' = list
                    /\ summary' = generateSummary(list)
    /\ UNCHANGED <<pc, inventory, previous, critical, returned, limit,
                   namespaceAnnotations, namespaceMap, byRisk>>

\* runScan: GenerateReport of the generator of the format; the file is
\* written with os.WriteFile, which can fail.
GenerateReport ==
    /\ pc = "scan"
    /\ scan.step = "analysed"
    /\ IF scan.format \in {"markdown", "json"}
       THEN \E ok \in BOOLEAN :
              scan' = [scan EXCEPT !.step = IF ok THEN "reported" ELSE "failed",
                                   !.events = Append(@, Event("report", ok)),
                                   !.reportWritten = ok]
       ELSE scan' = [scan EXCEPT !.step = "failed"]
    /\ UNCHANGED <<pc, coreVars>>

NextScan ==
    \/ ValidateFlags
    \/ CreateAnalyzerClient
    \/ AnalyzeScannedCluster
    \/ GenerateReport

SpecScan == InitScan /\ [][NextScan]_vars

(***************************************************************************)
(* Properties.                                                             *)
(***************************************************************************)
Range(s) == {s[i] : i \in DOMAIN s}

NoDuplicates(s) == \A i, j \in DOMAIN s : s[i] = s[j] => i = j

AllAnalyses == Range(analyses)

AnnotationKeys(a) == DOMAIN a.Resource.Annotations

ManagedKeys(a) == {k \in AnnotationKeys(a) : HasPrefix(k, NginxPrefix)}

MatchedRisks(a) == {a.MatchedRules[j].RiskLevel : j \in DOMAIN a.MatchedRules}

\* C1: the risk level of an Analysis is HIGH_RISK iff some matched rule is
\* HIGH_RISK; otherwise MANUAL iff some matched rule is MANUAL; otherwise AUTO.
C1_RiskPrecedence ==
    \A a \in AllAnalyses :
        /\ a.RiskLevel = RiskHigh <=> RiskHigh \in MatchedRisks(a)
        /\ RiskHigh \notin MatchedRisks(a) =>
              (a.RiskLevel = RiskManual <=> RiskManual \in MatchedRisks(a))
        /\ (RiskHigh \notin MatchedRisks(a) /\ RiskManual \notin MatchedRisks(a)) =>
              a.RiskLevel = RiskAuto

\* A HIGH_RISK rule matched before a MANUAL one resolves to HIGH_RISK.
C1_Witness ==
    \E a \in AllAnalyses :
        /\ Len(a.MatchedRules) = 2
        /\ a.MatchedRules[1].RiskLevel = RiskHigh
        /\ a.MatchedRules[2].RiskLevel = RiskManual
        /\ a.RiskLevel = RiskHigh

\* C2: MatchAnnotations returns what an exact-equality lookup returns: one
\* rule for each annotation key that equals a rule pattern, that rule, and
\* nothing for any other key.
C2_ExactLookup ==
    \A a \in AllAnalyses :
        /\ Len(a.MatchedRules) = Cardinality(AnnotationKeys(a) \cap KnownPatterns)
        /\ {a.MatchedRules[j].Pattern : j \in DOMAIN a.MatchedRules}
              = AnnotationKeys(a) \cap KnownPatterns

\* C3: when no annotation key has the nginx prefix, no rule is matched, no
\* key is unknown and the risk level is AUTO.
C3_UnmanagedIgnored ==
    \A a \in AllAnalyses :
        ManagedKeys(a) = {} =>
            /\ a.MatchedRules = <<>>
            /\ a.UnknownAnnotations = <<>>
            /\ a.RiskLevel = RiskAuto

\* C4: GetUnknownNginxAnnotations returns, each once, exactly the keys with
\* the nginx prefix that are the pattern of no rule.
C4_UnknownKeys ==
    \A a \in AllAnalyses :
        /\ NoDuplicates(a.UnknownAnnotations)
        /\ Range(a.UnknownAnnotations)
              = {k \in ManagedKeys(a) :
                    \A i \in RuleIndexes : GetAnnotationRules[i].Pattern # k}

\* One unknown nginx key next to a key of another controller.
C4_Witness ==
    \E a \in AllAnalyses :
        /\ a.UnknownAnnotations = <<"nginx.ingress.kubernetes.io/custom-unknown">>
        /\ "cert-manager.io/issuer" \in AnnotationKeys(a)

\* C5: every annotation key with the nginx prefix either contributed a rule
\* to MatchedRules or is listed in UnknownAnnotations, never both and never
\* neither.
C5_ClassifiedOneWay ==
    \A a \in AllAnalyses :
        \A k \in ManagedKeys(a) :
            (\E j \in DOMAIN a.MatchedRules :
                 RegexpMatchString(a.MatchedRules[j].Pattern, k))
              # InSeq(k, a.UnknownAnnotations)

NamespaceTotal(n) == n.AutoCount + n.ManualCount + n.HighRiskCount

\* C6: in the AnalysisSummary the three counts add up to TotalIngresses, and
\* for every namespace of ByNamespace the three counts add up to the number
\* of Analyses of that namespace.
C6_SummaryCounts ==
    summary # NoSummary =>
        /\ summary.TotalIngresses = Len(analyses)
        /\ summary.AutoCount + summary.ManualCount + summary.HighRiskCount
              = summary.TotalIngresses
        /\ DOMAIN summary.ByNamespace = {a.Resource.Namespace : a \in AllAnalyses}
        /\ \A n \in DOMAIN summary.ByNamespace :
              NamespaceTotal(summary.ByNamespace[n])
                = Cardinality({i \in DOMAIN analyses : analyses[i].Resource.Namespace = n})

\* Two namespaces, one HIGH_RISK ingress and one AUTO ingress.
C6_Witness ==
    /\ summary # NoSummary
    /\ summary.TotalIngresses = 2
    /\ summary.HighRiskCount = 1
    /\ summary.AutoCount = 1
    /\ Cardinality(DOMAIN summary.ByNamespace) = 2

ResourcesWith(k) == {i \in DOMAIN analyses : k \in AnnotationKeys(analyses[i])}

CountsResources(usage) ==
    /\ usage.UsageCount = Cardinality(ResourcesWith(usage.Key))
    /\ NoDuplicates(usage.Namespaces)
    /\ Range(usage.Namespaces)
          = {analyses[i].Resource.Namespace : i \in ResourcesWith(usage.Key)}

\* C7: for every key of NginxAnnotations and of UnknownAnnotations,
\* UsageCount is the number of resources whose annotation map has the key
\* and Namespaces is the set of the namespaces of those resources.
C7_UsageCounts ==
    inventory.Built =>
        /\ \A k \in DOMAIN inventory.NginxAnnotations :
              inventory.NginxAnnotations[k].Key = k
                /\ CountsResources(inventory.NginxAnnotations[k])
        /\ \A k \in DOMAIN inventory.UnknownAnnotations :
              inventory.UnknownAnnotations[k].Key = k
                /\ CountsResources(inventory.UnknownAnnotations[k])

\* An unknown key used by two resources of one namespace, and a HIGH_RISK
\* key used by one of them.
C7_Witness ==
    /\ inventory.Built
    /\ \E k \in DOMAIN inventory.UnknownAnnotations :
          /\ inventory.UnknownAnnotations[k].UsageCount = 2
          /\ Len(inventory.UnknownAnnotations[k].Namespaces) = 1
    /\ \E k \in DOMAIN inventory.NginxAnnotations :
          /\ inventory.NginxAnnotations[k].UsageCount = 1
          /\ inventory.NginxAnnotations[k].Risk = RiskHigh

\* C8: the key sets of NginxAnnotations and UnknownAnnotations are disjoint.
C8_ViewsDisjoint ==
    inventory.Built =>
        DOMAIN inventory.NginxAnnotations \cap DOMAIN inventory.UnknownAnnotations = {}

\* C8, amended: the keys of UnknownAnnotations are exactly the keys of
\* NginxAnnotations whose record is flagged UNKNOWN; a key whose record
\* carries the risk level of a rule is never in UnknownAnnotations.
C8_UnknownWithinKnown ==
    inventory.Built =>
        /\ DOMAIN inventory.UnknownAnnotations \subseteq DOMAIN inventory.NginxAnnotations
        /\ \A k \in DOMAIN inventory.NginxAnnotations :
              k \in DOMAIN inventory.UnknownAnnotations
                <=> inventory.NginxAnnotations[k].Risk = RiskUnknown

\* An inventory with a key in both views and a known key outside unknown.
C8_Witness ==
    /\ inventory.Built
    /\ DOMAIN inventory.UnknownAnnotations # {}
    /\ DOMAIN inventory.NginxAnnotations \ DOMAIN inventory.UnknownAnnotations # {}

SameView(x, y) ==
    /\ DOMAIN x = DOMAIN y
    /\ \A k \in DOMAIN x :
          /\ x[k].UsageCount = y[k].UsageCount
          /\ Range(x[k].Namespaces) = Range(y[k].Namespaces)
          /\ Range(x[k].UniqueValues) = Range(y[k].UniqueValues)
          /\ x[k].ValueExamples = y[k].ValueExamples

\* C9: two builds of the inventory from the same resources give equal key
\* sets, usage counts, namespace sets, value sets and Summary, whatever the
\* iteration orders and the order of the resources.
C9_SameInventory ==
    pc = "rebuilt" =>
        /\ SameView(previous.AllAnnotations, inventory.AllAnnotations)
        /\ SameView(previous.NginxAnnotations, inventory.NginxAnnotations)
        /\ SameView(previous.UnknownAnnotations, inventory.UnknownAnnotations)
        /\ previous.Summary = inventory.Summary

CriticalKeys == [i \in DOMAIN critical |-> critical[i].Key]

\* C10: before truncation the list of GetMostCriticalAnnotations holds the
\* records of NginxAnnotations with risk HIGH_RISK and all records of
\* UnknownAnnotations, each key once, and no record with risk AUTO or MANUAL.
C10_Candidates ==
    pc \in {"queried", "panic"} =>
        /\ NoDuplicates(CriticalKeys)
        /\ Range(critical)
              = {inventory.NginxAnnotations[k] :
                    k \in {n \in DOMAIN inventory.NginxAnnotations :
                              inventory.NginxAnnotations[n].Risk = RiskHigh}}
                \cup {inventory.UnknownAnnotations[k] :
                        k \in DOMAIN inventory.UnknownAnnotations}
        /\ \A i \in DOMAIN critical : critical[i].Risk \notin {RiskAuto, RiskManual}

\* A HIGH_RISK record and an unknown record are listed, an AUTO record of
\* the inventory is left out.
C10_Witness ==
    /\ pc = "queried"
    /\ \E i, j \in DOMAIN critical :
          critical[i].Risk = RiskHigh /\ critical[j].Risk = RiskUnknown
    /\ \E k \in DOMAIN inventory.NginxAnnotations :
          inventory.NginxAnnotations[k].Risk = RiskAuto

\* The candidates of the ranking: the HIGH_RISK records of the known view
\* and all records of the unknown view.
Candidates ==
    {inventory.NginxAnnotations[k] :
        k \in {n \in DOMAIN inventory.NginxAnnotations :
                  inventory.NginxAnnotations[n].Risk = RiskHigh}}
    \cup {inventory.UnknownAnnotations[k] : k \in DOMAIN inventory.UnknownAnnotations}

\* C11: the list GetMostCriticalAnnotations returns is in non-increasing
\* order of UsageCount and is the top of the candidates: no candidate that
\* was cut off has a greater UsageCount than a returned one.
C11_TopByUsage ==
    pc = "queried" =>
        /\ \A i, j \in DOMAIN returned :
              i < j => returned[i].UsageCount >= returned[j].UsageCount
        /\ Range(returned) \subseteq Candidates
        /\ \A c \in Candidates \ Range(returned) : \A r \in Range(returned) :
              c.UsageCount <= r.UsageCount

\* A candidate used less often than the returned one is cut off, although
\* it was collected first.
C11_Witness ==
    /\ pc = "queried"
    /\ Len(returned) = 1
    /\ \E c \in Candidates :
          /\ c.UsageCount < returned[1].UsageCount
          /\ c.Risk = RiskHigh
          /\ returned[1].Risk = RiskUnknown

\* The byte order of Go strings over the characters the keys are made of.
AsciiOrder == "-./0123456789abcdefghijklmnopqrstuvwxyz"

CharCode(c) == CHOOSE i \in 1..Len(AsciiOrder) : CharAt(AsciiOrder, i) = c

RECURSIVE KeyLessFrom(_, _, _)
KeyLessFrom(a, b, i) ==
    IF i > Len(b) THEN FALSE
    ELSE IF i > Len(a) THEN TRUE
    ELSE IF CharAt(a, i) = CharAt(b, i) THEN KeyLessFrom(a, b, i + 1)
    ELSE CharCode(CharAt(a, i)) < CharCode(CharAt(b, i))

KeyLess(a, b) == KeyLessFrom(a, b, 1)

\* C12: returned records of equal UsageCount are in ascending order of
\* their keys, so the ranking does not depend on the run.
C12_TiesByKey ==
    pc = "queried" =>
        \A i, j \in DOMAIN returned :
            (i < j /\ returned[i].UsageCount = returned[j].UsageCount)
                => KeyLess(returned[i].Key, returned[j].Key)

\* C13: for a limit of at least 0 the call returns min(limit, number of
\* candidates) records.
C13_ReturnedLength ==
    (pc = "queried" /\ limit >= 0) =>
        Len(returned) = (IF limit < Cardinality(Candidates)
                         THEN limit ELSE Cardinality(Candidates))

\* A positive limit below the number of candidates.
C13_Witness ==
    /\ pc = "queried"
    /\ limit > 0
    /\ limit < Cardinality(Candidates)
    /\ Len(returned) = limit

\* The sum of UsageCount over the records of the known view with the given
\* risk whose Namespaces hold the namespace.
RECURSIVE SumUsage(_, _)
SumUsage(nginx, keys) ==
    IF keys = {} THEN 0
    ELSE LET k == CHOOSE x \in keys : TRUE
         IN  nginx[k].UsageCount + SumUsage(nginx, keys \ {k})

Amount(namespace, risk) ==
    SumUsage(inventory.NginxAnnotations,
             {k \in DOMAIN inventory.NginxAnnotations :
                 /\ inventory.NginxAnnotations[k].Risk = risk
                 /\ InSeq(namespace, inventory.NginxAnnotations[k].Namespaces)})

Total(namespace) ==
    Amount(namespace, RiskAuto) + Amount(namespace, RiskManual)
        + Amount(namespace, RiskHigh)

\* C14: a namespace with a label is HIGH iff high * 100 > 50 * total, else
\* MEDIUM iff high * 100 > 20 * total, else LOW; so exactly 50% is MEDIUM,
\* exactly 20% is LOW, 51% is HIGH and 21% is MEDIUM.
C14_StrictThresholds ==
    pc = "scored" =>
        \A n \in DOMAIN namespaceMap :
            LET high  == Amount(n, RiskHigh)
                total == Total(n)
            IN  /\ namespaceMap[n] = HighComplexity <=> high * 100 > 50 * total
                /\ namespaceMap[n] = MediumComplexity
                      <=> (high * 100 <= 50 * total /\ high * 100 > 20 * total)
                /\ namespaceMap[n] = LowComplexity <=> high * 100 <= 20 * total
                /\ high * 100 = 50 * total => namespaceMap[n] = MediumComplexity
                /\ high * 100 = 20 * total => namespaceMap[n] = LowComplexity
                /\ high * 100 = 51 * total => namespaceMap[n] = HighComplexity
                /\ high * 100 = 21 * total => namespaceMap[n] = MediumComplexity

\* One namespace at exactly 50% is labelled MEDIUM, the other at exactly 20%
\* is labelled LOW.
C14_Witness ==
    /\ pc = "scored"
    /\ DOMAIN namespaceMap = {"prod", "staging"}
    /\ \E n, o \in DOMAIN namespaceMap :
          /\ Amount(n, RiskHigh) * 100 = 50 * Total(n)
          /\ namespaceMap[n] = MediumComplexity
          /\ Amount(o, RiskHigh) * 100 = 20 * Total(o)
          /\ namespaceMap[o] = LowComplexity

Scenario16(first, second, x) ==
    /\ first.Resource.Namespace = "prod"
    /\ second.Resource.Namespace = "prod"
    /\ DOMAIN first.Resource.Annotations = {x}
    /\ HasPrefix(x, NginxPrefix)
    /\ GetRuleByPattern(x) # NoRule
    /\ GetRuleByPattern(x).RiskLevel = RiskHigh
    /\ \A k \in DOMAIN second.Resource.Annotations : ~HasPrefix(k, NginxPrefix)

\* C16: for two resources in prod, one with a single HIGH_RISK annotation X
\* and one without managed annotations, the Summary counts one HIGH_RISK and
\* one AUTO resource, the known record of X has UsageCount 1 and Namespaces
\* {prod}, and prod is labelled HIGH complexity.
C16_EndToEnd ==
    (pc = "scored" /\ Len(analyses) = 2) =>
        \A i, j \in DOMAIN analyses :
            \A x \in DOMAIN analyses[i].Resource.Annotations :
                (i # j /\ Scenario16(analyses[i], analyses[j], x)) =>
                    /\ summary.HighRiskCount = 1
                    /\ summary.AutoCount = 1
                    /\ x \in DOMAIN inventory.NginxAnnotations
                    /\ inventory.NginxAnnotations[x].UsageCount = 1
                    /\ Range(inventory.NginxAnnotations[x].Namespaces) = {"prod"}
                    /\ "prod" \in DOMAIN namespaceMap
                    /\ namespaceMap["prod"] = HighComplexity

ReturnedKeys == [i \in DOMAIN returned |-> returned[i].Key]

\* C17: a prefixed key of a resource that is no rule pattern is in the
\* UnknownAnnotations of the Analysis and in the unknown view of the
\* inventory, and, when the limit does not cut it off, it is returned by
\* GetMostCriticalAnnotations before every known HIGH_RISK record that is
\* used less often.
C17_UnknownEndToEnd ==
    pc \in {"built", "queried"} =>
        \A a \in AllAnalyses :
            \A k \in {x \in DOMAIN a.Resource.Annotations :
                         HasPrefix(x, NginxPrefix) /\ x \notin KnownPatterns} :
                /\ InSeq(k, a.UnknownAnnotations)
                /\ k \in DOMAIN inventory.UnknownAnnotations
                /\ (pc = "queried" /\ limit >= Cardinality(Candidates))
                      => InSeq(k, ReturnedKeys)
                /\ pc = "queried" =>
                      \A i, j \in DOMAIN returned :
                          (/\ returned[i].Key = k
                           /\ returned[j].Risk = RiskHigh
                           /\ returned[j].UsageCount < returned[i].UsageCount)
                              => i < j

\* An unknown key used twice is returned before a known HIGH_RISK record
\* used once.
C17_Witness ==
    /\ pc = "queried"
    /\ Len(returned) = 2
    /\ returned[1].Risk = RiskUnknown
    /\ returned[1].Key \in DOMAIN inventory.UnknownAnnotations
    /\ returned[2].Risk = RiskHigh
    /\ returned[2].UsageCount < returned[1].UsageCount

\* The keys the noise filter is specified to drop: those with a system
\* prefix and the exact system keys.
IsNoise(k) ==
    \/ \E prefix \in {"kubectl.kubernetes.io/", "deployment.kubernetes.io/",
                      "control-plane.alpha.kubernetes.io/"} : HasPrefix(k, prefix)
    \/ k \in {"kubernetes.io/ingress.class", "meta.helm.sh/release-name",
              "meta.helm.sh/release-namespace"}

\* The analysis of the same resource without its system annotations.
WithoutSystemKeys(a) ==
    [a EXCEPT !.Resource.Annotations =
        [k \in {x \in DOMAIN @ : ~IsNoise(x)} |-> @[k]]]

SystemKeysOf(a) == {k \in AnnotationKeys(a) : IsNoise(k)}

SameCounts(x, y) ==
    /\ x.TotalUniqueAnnotations = y.TotalUniqueAnnotations
    /\ x.NginxAnnotationsCount = y.NginxAnnotationsCount
    /\ x.UnknownAnnotationsCount = y.UnknownAnnotationsCount

\* C18: no key the noise filter matches is in a view of the inventory, and
\* the inventory built from the resources has the counts of the inventory
\* built from the same resources without their system annotations.
C18_NoiseFiltered ==
    pc = "built" =>
        /\ \A k \in DOMAIN inventory.AllAnnotations
                    \cup DOMAIN inventory.NginxAnnotations
                    \cup DOMAIN inventory.UnknownAnnotations :
              ~IsNoise(k)
        /\ \E inv \in Inventories([i \in DOMAIN analyses |->
                                      WithoutSystemKeys(analyses[i])]) :
              /\ SameView(inv.AllAnnotations, inventory.AllAnnotations)
              /\ SameView(inv.NginxAnnotations, inventory.NginxAnnotations)
              /\ SameView(inv.UnknownAnnotations, inventory.UnknownAnnotations)
              /\ SameCounts(inv.Summary, inventory.Summary)

\* Two resources carry a system annotation, one named exactly and one by
\* prefix, next to annotations that are counted.
C18_Witness ==
    /\ pc = "built"
    /\ \E a, b \in AllAnalyses :
          /\ "kubernetes.io/ingress.class" \in SystemKeysOf(a)
          /\ "kubectl.kubernetes.io/last-applied-configuration" \in SystemKeysOf(b)
    /\ Cardinality(DOMAIN inventory.AllAnnotations) = 2

RulesWithPattern(k) == {i \in RuleIndexes : GetAnnotationRules[i].Pattern = k}

\* C19: a record of the known view carries the Risk, Description,
\* MigrationNote and SourceURL of the one rule whose pattern equals its key;
\* its Risk is UNKNOWN exactly when no rule has that pattern, and the lookup
\* by pattern finds no rule for a key that is no pattern.
C19_RuleInfo ==
    pc \in {"built", "queried", "scored"} =>
        /\ \A k \in DOMAIN inventory.NginxAnnotations :
              LET usage == inventory.NginxAnnotations[k]
              IN  /\ Cardinality(RulesWithPattern(k)) <= 1
                  /\ usage.Risk = RiskUnknown <=> RulesWithPattern(k) = {}
                  /\ RulesWithPattern(k) = {} => GetRuleByPattern(k) = NoRule
                  /\ \A i \in RulesWithPattern(k) :
                        /\ GetRuleByPattern(k) = GetAnnotationRules[i]
                        /\ usage.Risk = GetAnnotationRules[i].RiskLevel
                        /\ usage.Description = GetAnnotationRules[i].Description
                        /\ usage.MigrationNote = GetAnnotationRules[i].MigrationNote
                        /\ usage.SourceURL = GetAnnotationRules[i].SourceURL
        /\ \A a \in AllAnalyses : \A k \in AnnotationKeys(a) :
              RulesWithPattern(k) = {} => GetRuleByPattern(k) = NoRule

\* The known view holds a key with a rule and the key rate-limit-rps, which
\* contains a pattern and equals none, flagged UNKNOWN.
C19_Witness ==
    /\ pc = "built"
    /\ \E k \in DOMAIN inventory.NginxAnnotations :
          inventory.NginxAnnotations[k].Risk = RiskHigh
    /\ "nginx.ingress.kubernetes.io/rate-limit-rps" \in DOMAIN inventory.NginxAnnotations
    /\ inventory.NginxAnnotations["nginx.ingress.kubernetes.io/rate-limit-rps"].Risk
          = RiskUnknown

\* C20: a call of GetMostCriticalAnnotations or GetAnnotationsByRisk on a
\* built inventory leaves every field of every record of the three views
\* and the Summary as they were.
C20_ReadOnly ==
    [][(pc \in {"built", "queried"} /\ pc' \in {"queried", "panic", "grouped"})
          => inventory' = inventory]_vars

\* C21: Summary.MostUsedAnnotation is a key of the all view whose
\* UsageCount is the largest of the all view, and it is "" iff the all view
\* is empty.
C21_MostUsed ==
    pc \in {"built", "rebuilt"} =>
        LET all      == inventory.AllAnnotations
            mostUsed == inventory.Summary.MostUsedAnnotation
        IN  /\ mostUsed = "" <=> DOMAIN all = {}
            /\ mostUsed # "" =>
                  /\ mostUsed \in DOMAIN all
                  /\ \A k \in DOMAIN all : all[k].UsageCount <= all[mostUsed].UsageCount

\* The all view holds a key used twice and a key used once.
C21_Witness ==
    /\ pc = "built"
    /\ inventory.Summary.MostUsedAnnotation # ""
    /\ \E k \in DOMAIN inventory.AllAnnotations :
          inventory.AllAnnotations[k].UsageCount
              < inventory.AllAnnotations[inventory.Summary.MostUsedAnnotation].UsageCount

\* C22: a resource without annotations is analysed with risk AUTO, no
\* matched rule and no unknown annotation; GetHighestRiskLevel of the empty
\* rule list is AUTO.
C22_EmptyIsAuto ==
    /\ GetHighestRiskLevel(<<>>) = RiskAuto
    /\ \A a \in AllAnalyses :
          /\ a.MatchedRules = <<>> => a.RiskLevel = RiskAuto
          /\ AnnotationKeys(a) = {} =>
                /\ a.RiskLevel = RiskAuto
                /\ a.MatchedRules = <<>>
                /\ a.UnknownAnnotations = <<>>

\* A resource without annotations has been analysed.
C22_Witness ==
    /\ pc = "analysis"
    /\ \E a \in AllAnalyses : AnnotationKeys(a) = {} /\ a.RiskLevel = RiskAuto

\* The analysis of the i-th ingress the scanner kept.
Kept == filterNginxIngresses(listed)

\* C23: an ingress with the legacy annotation kubernetes.io/ingress.class:
\* nginx and without spec.ingressClassName gets the warning about the
\* deprecated annotation in its Analysis.
C23_DeprecatedClassWarned ==
    (pc \in {"analysis", "analyzed"} /\ Len(analyses) = Len(Kept)) =>
        \A i \in DOMAIN Kept :
            (/\ Kept[i].IngressClassName = NoClass
             /\ IngressClassAnnotation \in DOMAIN Kept[i].Annotations
             /\ Kept[i].Annotations[IngressClassAnnotation] = "nginx")
                => InSeq(DeprecatedClassWarning, analyses[i].Warnings)

\* The three conditions under which an ingress is analysed.
UsesNginx(ingress) ==
    \/ ingress.IngressClassName = "nginx"
    \/ \E k \in DOMAIN ingress.Annotations :
          k = "kubernetes.io/ingress.class" /\ ingress.Annotations[k] = "nginx"
    \/ \E k \in DOMAIN ingress.Annotations :
          HasPrefix(k, "nginx.ingress.kubernetes.io/")

\* The positions of the listed ingresses that use nginx, in order.
RECURSIVE NginxPositions(_)
NginxPositions(i) ==
    IF i > Len(listed) THEN <<>>
    ELSE (IF UsesNginx(listed[i]) THEN <<i>> ELSE <<>>) \o NginxPositions(i + 1)

\* C24: the scanner keeps a listed ingress iff its spec.ingressClassName is
\* nginx, or its kubernetes.io/ingress.class annotation is nginx, or it has
\* an annotation key with the nginx prefix; every analysed resource meets
\* one of the three, and TotalIngresses is at least the number analysed.
C24_KeptIffNginx ==
    scan.step \in {"analysed", "reported"} =>
        LET positions == NginxPositions(1)
        IN  /\ Len(analyses) = Len(positions)
            /\ \A i \in DOMAIN analyses :
                  /\ analyses[i].Resource.Namespace = listed[positions[i]].Namespace
                  /\ analyses[i].Resource.Annotations = listed[positions[i]].Annotations
            /\ scan.totalIngresses = Len(listed)
            /\ scan.totalIngresses >= Len(analyses)

\* One listed ingress is kept for its prefixed annotation key alone, the
\* other is dropped.
C24_Witness ==
    /\ scan.step = "analysed"
    /\ Len(listed) = 2
    /\ Len(analyses) = 1
    /\ analyses[1].Resource.ClassName # "nginx"
    /\ \E k \in AnnotationKeys(analyses[1]) : HasPrefix(k, NginxPrefix)

\* The ingresses of the namespaces whose listing succeeds, in order.
RECURSIVE ListableFrom(_)
ListableFrom(i) ==
    IF i > Len(NamespaceNames) THEN <<>>
    ELSE (IF NamespaceNames[i] \in scan.cluster.Failing THEN <<>>
          ELSE scan.cluster.Items[NamespaceNames[i]]) \o ListableFrom(i + 1)

AnalysisRan == scan.step # "none" /\ \E i \in DOMAIN scan.events : scan.events[i].name = "analyze"

\* C25: scanning all namespaces, a namespace whose ingress listing fails is
\* skipped with a warning and the ingresses of the other namespaces are
\* returned without error; for a single requested namespace a listing
\* failure is an error without a result, and so is a failure to list the
\* namespaces.
C25_ListingFailures ==
    AnalysisRan =>
        LET cluster == scan.cluster
            failed  == scan.step = "failed" /\ ~scan.events[Len(scan.events)].ok
                           /\ scan.events[Len(scan.events)].name = "analyze"
        IN  /\ (scan.namespace = "" /\ ~cluster.NamespacesFail) =>
                  /\ ~failed
                  /\ listed = ListableFrom(1)
                  /\ Range(scan.warned) = cluster.Failing
            /\ (scan.namespace = "" /\ cluster.NamespacesFail) =>
                  failed /\ listed = <<>> /\ analyses = <<>> /\ summary = NoSummary
            /\ scan.namespace # "" =>
                  IF scan.namespace \in cluster.Failing
                  THEN failed /\ listed = <<>> /\ analyses = <<>> /\ summary = NoSummary
                  ELSE ~failed /\ listed = cluster.Items[scan.namespace]

\* All namespaces are scanned, the listing of prod fails and the ingress of
\* staging is returned.
C25_Witness ==
    /\ scan.step = "analysed"
    /\ scan.namespace = ""
    /\ scan.cluster.Failing = {"prod"}
    /\ scan.cluster.Items["prod"] # <<>>
    /\ scan.warned = <<"prod">>
    /\ Len(listed) = 1
    /\ listed[1].Namespace = "staging"

StepOrder == <<"validate", "connect", "analyze", "report">>

\* C26: the steps of the scan command run in the order validation,
\* connection, analysis, report, each only after the earlier ones
\* succeeded; a report file is written only after a successful analysis;
\* with a format other than markdown or json the command fails in
\* validation, before a connection is attempted and before the output
\* directory is created.
C26_StepOrder ==
    scan.step # "none" =>
        /\ Len(scan.events) <= Len(StepOrder)
        /\ \A i \in DOMAIN scan.events :
              /\ scan.events[i].name = StepOrder[i]
              /\ i > 1 => scan.events[i - 1].ok
        /\ scan.reportWritten =>
              /\ Len(scan.events) = 4
              /\ scan.events[3] = Event("analyze", TRUE)
              /\ scan.outputDirCreated
        /\ scan.format \notin {"markdown", "json"} =>
              /\ Len(scan.events) <= 1
              /\ \A i \in DOMAIN scan.events : scan.events[i] = Event("validate", FALSE)
              /\ ~scan.outputDirCreated
              /\ (scan.events # <<>> => scan.step = "failed")

\* A command with an unsupported format has failed in validation.
C26_Witness ==
    /\ scan.step = "failed"
    /\ scan.format = "yaml"
    /\ scan.events = <<Event("validate", FALSE)>>

\* The order AUTO < MANUAL < HIGH_RISK.
RiskRank(risk) == IF risk = RiskHigh THEN 3 ELSE IF risk = RiskManual THEN 2 ELSE 1

\* C27: GetHighestRiskLevel depends only on the set of risk levels of its
\* input: every permutation of the matched rules resolves to the same
\* level, two lists with the same levels resolve alike, and a list with one
\* more rule never resolves lower in the order AUTO < MANUAL < HIGH_RISK.
C27_OrderIndependent ==
    \A a \in AllAnalyses :
        LET rules == a.MatchedRules
        IN  /\ \A p \in Orders(DOMAIN rules) :
                  GetHighestRiskLevel([i \in DOMAIN rules |-> rules[p[i]]])
                      = GetHighestRiskLevel(rules)
            /\ \A b \in AllAnalyses :
                  MatchedRisks(a) = MatchedRisks(b)
                      => GetHighestRiskLevel(b.MatchedRules) = GetHighestRiskLevel(rules)
            /\ \A r \in RuleIndexes :
                  /\ RiskRank(GetHighestRiskLevel(Append(rules, GetAnnotationRules[r])))
                        >= RiskRank(GetHighestRiskLevel(rules))
                  /\ RiskRank(GetHighestRiskLevel(<<GetAnnotationRules[r]>> \o rules))
                        >= RiskRank(GetHighestRiskLevel(rules))

\* A resource whose annotations matched an AUTO rule and a HIGH_RISK rule.
C27_Witness ==
    /\ pc = "analysis"
    /\ \E a \in AllAnalyses :
          /\ Len(a.MatchedRules) = 2
          /\ MatchedRisks(a) = {RiskAuto, RiskHigh}
          /\ a.RiskLevel = RiskHigh

\* The record of a key counts the same uses in two views.
SameRecord(x, y) ==
    /\ x.UsageCount = y.UsageCount
    /\ Range(x.Namespaces) = Range(y.Namespaces)
    /\ x.ValueExamples = y.ValueExamples

\* C28: in every built inventory the keys of UnknownAnnotations are keys of
\* NginxAnnotations, which are keys of AllAnnotations, and the records of a
\* key in two views have the same UsageCount, namespace set and value counts.
C28_NestedViews ==
    inventory.Built =>
        /\ DOMAIN inventory.UnknownAnnotations \subseteq DOMAIN inventory.NginxAnnotations
        /\ DOMAIN inventory.NginxAnnotations \subseteq DOMAIN inventory.AllAnnotations
        /\ \A k \in DOMAIN inventory.NginxAnnotations :
              SameRecord(inventory.NginxAnnotations[k], inventory.AllAnnotations[k])
        /\ \A k \in DOMAIN inventory.UnknownAnnotations :
              /\ SameRecord(inventory.UnknownAnnotations[k], inventory.NginxAnnotations[k])
              /\ SameRecord(inventory.UnknownAnnotations[k], inventory.AllAnnotations[k])

\* An unknown key used by two resources of two namespaces, next to an nginx
\* key that has a rule.
C28_Witness ==
    /\ pc = "built"
    /\ \E k \in DOMAIN inventory.UnknownAnnotations :
          /\ inventory.UnknownAnnotations[k].UsageCount = 2
          /\ Len(inventory.UnknownAnnotations[k].Namespaces) = 2
    /\ DOMAIN inventory.NginxAnnotations \ DOMAIN inventory.UnknownAnnotations # {}

RECURSIVE SumCountsOver(_, _)
SumCountsOver(counts, keys) ==
    IF keys = {} THEN 0
    ELSE LET k == CHOOSE x \in keys : TRUE
         IN  counts[k] + SumCountsOver(counts, keys \ {k})

SumCounts(counts) == SumCountsOver(counts, DOMAIN counts)

\* The records of the three views of the inventory.
AllRecords ==
    {inventory.AllAnnotations[k] : k \in DOMAIN inventory.AllAnnotations}
        \cup {inventory.NginxAnnotations[k] : k \in DOMAIN inventory.NginxAnnotations}
        \cup {inventory.UnknownAnnotations[k] : k \in DOMAIN inventory.UnknownAnnotations}

\* C29: every record of a built inventory has a UsageCount of at least 1
\* that is the sum of the counts of ValueExamples; UniqueValues has no
\* duplicates and holds exactly the keys of ValueExamples; Namespaces has no
\* duplicates and is no longer than UsageCount.
C29_RecordConsistent ==
    inventory.Built =>
        \A usage \in AllRecords :
            /\ usage.UsageCount >= 1
            /\ usage.UsageCount = SumCounts(usage.ValueExamples)
            /\ NoDuplicates(usage.UniqueValues)
            /\ Range(usage.UniqueValues) = DOMAIN usage.ValueExamples
            /\ NoDuplicates(usage.Namespaces)
            /\ Len(usage.Namespaces) <= usage.UsageCount

\* A key used by two resources of one namespace with two values.
C29_Witness ==
    /\ pc = "built"
    /\ \E usage \in AllRecords :
          /\ usage.UsageCount = 2
          /\ Len(usage.Namespaces) = 1
          /\ Len(usage.UniqueValues) = 2

\* C30: GetMostCriticalAnnotations completes for every integer limit, zero
\* and negative limits included, and returns the empty list whenever the
\* limit is zero or less.
C30_AnyLimit ==
    /\ pc # "panic"
    /\ (pc = "queried" /\ limit <= 0) => returned = <<>>

====
